---- MODULE Spec2Model ----
(***************************************************************************)
(* Model of the cave synthesizer plugin (src/src/lib.rs, gui.rs,           *)
(* params.rs): the GUI lifecycle controller CaveGui with its host-facing   *)
(* PluginGuiImpl entry points, the shared parameter store Params, and the  *)
(* square-wave voice of CaveAudioProcessor.                                *)
(***************************************************************************)
EXTENDS Integers, Naturals, Sequences, FiniteSets, TLC

(***************************************************************************)
(* Bounds of the model.                                                    *)
(***************************************************************************)
\* Number of surfaces EguiWindow::open_parented may create in one behaviour.
MaxSurfaces == 3

\* Number of process() calls followed when each call is one step.
MaxBlocks == 2

\* Number of fractional binary digits of the modelled floating-point values:
\* the integer n stands for the real number n / 2^FracBits.
FracBits == 25

(***************************************************************************)
(* GUI lifecycle controller: values.                                       *)
(***************************************************************************)
\* Option::None of CaveGui.parent.
NoParent == "None"

\* Option::None of CaveGui.handle; live handles are surface ids 1, 2, ...
NoHandle == 0

\* Variants of RawWindowHandle a host can hand to set_parent.
X11Kinds == {"Xlib", "Xcb"}

HandleKinds == X11Kinds \cup {"Wayland", "Win32", "AppKit"}

\* The build targets: the cfg(target_os = "linux") block of open() is
\* compiled in on "linux" only.
TargetOs == {"linux", "other"}

\* The handles a host of the given platform hands over.  On Linux the
\* controller is written to be handed anything (its match has a Wayland arm
\* and a catch-all arm); elsewhere the host hands the platform's own kind.
HostHandles(os) == IF os = "linux" THEN HandleKinds ELSE {"Win32", "AppKit"}

\* PluginError::Message values returned by open(), and the success values.
ErrNoParent == "Err: No parent window provided"

ErrWayland == "Err: Got Wayland parent handle; embedded editor not supported in this build"

ErrUnsupported == "Err: Unsupported parent window handle type"

Errors == {ErrNoParent, ErrWayland, ErrUnsupported}

\* Ok(()) of a Result-returning call, and () of close() and destroy().
Ok == "Ok"

Unit == "()"

VARIABLES
    target_os,  \* the build target
    parent,     \* CaveGui.parent : Option<RawWindowHandle>
    handle,     \* CaveGui.handle : Option<WindowHandle>
    surfaces,   \* window layer: the surfaces created and not closed
    created,    \* window layer: number of surfaces created so far
    call,       \* the last call made on the controller
    arg,        \* its argument (set_parent's window handle)
    result,     \* its return value
    prev,       \* the call made before it
    c_pc        \* main thread: where it is in CaveGui::close()

guiVars == <<target_os, parent, handle, surfaces, created, call, arg, result, prev, c_pc>>

VARIABLES
    gain,       \* Params.gain : AtomicF32, the value held
    written,    \* the values stored into Params.gain so far
    last_arg,   \* the value handed to the most recent write of the gain
    got_id,     \* the id of the last get_value since the most recent write
    got,        \* and what it returned
    a_pc,       \* audio thread: where it is in process() or flush()
    a_gain,     \* audio thread: `gain` local of process()
    note_on,    \* CaveAudioProcessor.note_on
    frequency,  \* CaveAudioProcessor.frequency, in Hz
    m_pc,       \* main thread: where it is in flush()
    s_pc,       \* UI thread: where the draw callback is in slider()
    s_value     \* UI thread: `value` local of slider()

VARIABLES
    sample_rate, \* CaveAudioProcessor.sample_rate, in Hz
    phase,      \* CaveAudioProcessor.phase, in units of 1 / PhaseOne
    frames,     \* audio thread: frames_count of the block being processed
    buf,        \* audio thread: synth_buffer, the samples generated so far
    out,        \* the output channels as the last process() call left them
    batch,      \* the events of the last process() call taken as one step
    phase0,     \* the phase the last process() call started from
    blocks,     \* number of process() calls taken as one step so far
    last_note   \* the kind of the last note event with a specific key handled

storeVars == <<gain, written, last_arg, got_id, got>>

voiceVars == <<sample_rate, phase, frames, buf, out, batch, phase0, blocks, last_note>>

audioVars == <<a_pc, a_gain, note_on, frequency>>

mainVars == <<m_pc>>

uiVars == <<s_pc, s_value>>

vars == <<guiVars, storeVars, audioVars, voiceVars, mainVars, uiVars>>

(***************************************************************************)
(* Floating-point values.  The integer n stands for n / 2^FracBits; every  *)
(* n the model uses has fewer than 31 significant binary digits, so it is  *)
(* an f64 exactly, and it is an f32 exactly when it has at most F32Digits  *)
(* significant binary digits.                                              *)
(***************************************************************************)
\* Significand width of f32, the type held by AtomicF32.
F32Digits == 24

Zero == 0

One == 2^FracBits

Half == 2^(FracBits - 1)

Abs(n) == IF n < 0 THEN -n ELSE n

\* The spacing of the f32 values around the magnitude a: the least power of
\* two `step` (from the given one on) with a < step * 2^F32Digits.
RECURSIVE F32Ulp(_, _)
F32Ulp(a, step) ==
    IF a \div step < 2^F32Digits THEN step ELSE F32Ulp(a, 2 * step)

RoundHalfEven(a, step) ==
    LET q == a \div step
        r == a % step
    IN  IF 2 * r > step \/ (2 * r = step /\ q % 2 = 1)
        THEN (q + 1) * step
        ELSE q * step

\* `v as f32` of an f64 v: round to nearest f32, ties to even.
F64toF32(v) ==
    IF v < 0
    THEN -RoundHalfEven(-v, F32Ulp(-v, 1))
    ELSE RoundHalfEven(v, F32Ulp(v, 1))

\* `x as f64` of an f32 x: every f32 is an f64, the value is kept.
F32toF64(x) == x

(***************************************************************************)
(* Params (params.rs).                                                     *)
(***************************************************************************)
PARAM_GAIN_ID == 0

\* AtomicF32::new(1.0) in Params::default.
Params_default == One

\* Mutant of store: a store that is not atomic, leaving part of the old
\* content next to part of the new one.
store_torn(cell, v) == IF cell = v THEN v ELSE (cell + v) \div 2

\* AtomicF32::store(v, Relaxed) on a cell: the new content of the cell.
store(cell, v) == v

\* AtomicF32::load(Relaxed) of a cell.
load(cell) == cell

\* Params::gain
Params_gain(g) == load(g)

\* Mutant of set_gain: the value is clamped to the declared range.
set_gain_clamped(g, v) ==
    store(g, IF v < Zero THEN Zero ELSE IF v > One THEN One ELSE v)

\* Params::set_gain
set_gain(g, v) == store(g, v)

\* Mutant of param_event_sets: the id of the event is not looked at.
param_event_sets_any_id(ev) == <<F64toF32(ev.value)>>

\* The match of handle_param_value_event: the arguments of the set_gain calls
\* it makes for the event, in order (none for any id but PARAM_GAIN_ID).
param_event_sets(ev) ==
    IF ev.id = PARAM_GAIN_ID THEN <<F64toF32(ev.value)>> ELSE <<>>

\* Params::handle_param_value_event: the gain cell after the event.
handle_param_value_event(g, ev) ==
    LET a == param_event_sets(ev)
    IN  IF a = <<>> THEN g ELSE set_gain(g, a[1])

(***************************************************************************)
(* PluginMainThreadParams for CaveMainThread (lib.rs).                     *)
(***************************************************************************)
\* get_info: the descriptor written for the index, <<>> when nothing is.
get_info(param_index) ==
    IF param_index # 0 THEN <<>>
    ELSE <<[id |-> PARAM_GAIN_ID, name |-> "Gain", automatable |-> TRUE,
            min_value |-> Zero, max_value |-> One, default_value |-> Half]>>

\* get_value: Option<f64>, <<>> for None and <<v>> for Some(v).
get_value(g, param_id) ==
    IF param_id = PARAM_GAIN_ID THEN <<F32toF64(Params_gain(g))>> ELSE <<>>

(***************************************************************************)
(* Inputs.                                                                 *)
(***************************************************************************)
\* f64 values a host puts in parameter-change events: 0.0, 0.5, the f64 next
\* above 0.5 on the grid (no f32), and 2.0 (outside the declared range).
HostValues == {Zero, Half, Half + 1, 2 * One}

\* Parameter ids of events and of get_value: the gain and a foreign one.
ParamIds == {PARAM_GAIN_ID, PARAM_GAIN_ID + 1}

\* Note keys.  The key of a note event is a Match<u16>: Match::Specific(key)
\* is <<key>> and Match::All is <<>>.
Keys == {69, 81}

MatchAll == <<>>

Specific(key) == <<key>>

\* Values the user can drag the slider to: Slider::new(&mut value, 0.0..=1.0).
SliderValues == {Zero, Half, One}

ParamEvents == [type : {"ParamValue"}, id : ParamIds, value : HostValues]

NoteEvents == [type : {"NoteOn", "NoteOff"}, key : {Specific(k) : k \in Keys} \cup {MatchAll}]

\* Every other event of the core event space, and events outside it.
OtherEvents == {[type |-> "Other"]}

Events == ParamEvents \cup NoteEvents \cup OtherEvents

\* audio_config.sample_rate handed to activate: 48 kHz, and a rate at which
\* the phase step of key 69 is the power of two 1/16.
Rates == {48000, 7040}

\* frames_count of a block.
BlockSizes == {16, 64}

\* The block size of the host running at the given rate.
BlockSizeAt(rate) == IF rate = 48000 THEN 64 ELSE 16

\* The events of the blocks of the voice: note-ons for both keys, a note-off
\* for one of them, the note events for every key, and the gain set to 0.0.
VoiceEvents ==
    {[type |-> "NoteOn", key |-> Specific(k)] : k \in Keys}
        \cup {[type |-> "NoteOff", key |-> Specific(69)]}
        \cup [type : {"NoteOn", "NoteOff"}, key : {MatchAll}]
        \cup [type : {"ParamValue"}, id : {PARAM_GAIN_ID}, value : {Zero}]

\* The events of one block, in delivery order: up to two of them.
Batches ==
    {<<>>} \cup {<<e>> : e \in VoiceEvents}
           \cup {<<e1, e2>> : e1 \in VoiceEvents, e2 \in VoiceEvents}

(***************************************************************************)
(* CaveGui (gui.rs).                                                       *)
(***************************************************************************)
\* CaveGui::is_open
is_open(h) == h # NoHandle

\* Mutant of open_parented: the surface is created as a top-level window,
\* under no parent.
open_parented_unparented(p, n) == [id |-> n + 1, parent |-> NoParent]

\* EguiWindow::open_parented(self, ...): a new surface under the parent that
\* self.raw_window_handle() reports, which is self.parent.
open_parented(p, n) == [id |-> n + 1, parent |-> p]

\* Mutant of open_linux_check: the Wayland arm lets the handle through.
open_linux_check_accepts_wayland(os, p) ==
    IF os # "linux" THEN Ok
    ELSE IF p \in X11Kinds \cup {"Wayland"} THEN Ok
    ELSE ErrUnsupported

\* The cfg(target_os = "linux") match of open(): the error it returns for the
\* parent handle, or Ok when it falls through.
open_linux_check(os, p) ==
    IF os # "linux" THEN Ok
    ELSE IF p \in X11Kinds THEN Ok
    ELSE IF p = "Wayland" THEN ErrWayland
    ELSE ErrUnsupported

\* Mutant of CaveGui_open: no test of self.parent, success is reported with
\* no parent recorded.
CaveGui_open_no_parent_check(os, p, h, ws, n) ==
    IF p = NoParent \/ open_linux_check(os, p) # Ok
    THEN [result |-> IF p = NoParent THEN Ok ELSE open_linux_check(os, p),
          handle |-> h, surfaces |-> ws, created |-> n]
    ELSE LET w == open_parented(p, n)
         IN  [result |-> Ok, handle |-> w.id, surfaces |-> ws \cup {w},
              created |-> n + 1]

\* CaveGui::open: the result and the controller and window-layer state it
\* leaves.  There is no is_open() test in open() itself.
CaveGui_open(os, p, h, ws, n) ==
    IF p = NoParent
    THEN [result |-> ErrNoParent, handle |-> h, surfaces |-> ws, created |-> n]
    ELSE IF open_linux_check(os, p) # Ok
    THEN [result |-> open_linux_check(os, p), handle |-> h, surfaces |-> ws,
          created |-> n]
    ELSE LET w == open_parented(p, n)
         IN  [result |-> Ok, handle |-> w.id, surfaces |-> ws \cup {w},
              created |-> n + 1]

\* Mutant of CaveGui_close: the surface is closed, `self.handle = None` is
\* missing.
CaveGui_close_keeps_handle(h, ws) ==
    [handle |-> h, surfaces |-> {w \in ws : w.id # h}]

\* CaveGui::close: handle.close() on the held surface, then handle = None.
CaveGui_close(h, ws) ==
    [handle |-> NoHandle, surfaces |-> {w \in ws : w.id # h}]

(***************************************************************************)
(* PluginGuiImpl for CaveMainThread (lib.rs).                              *)
(***************************************************************************)
\* Mutant of set_parent: no is_open() test, every call opens.
set_parent_always_opens(os, window, h, ws, n) ==
    CaveGui_open(os, window, h, ws, n)

\* set_parent: records the handle, then opens unless already open.
set_parent(os, window, h, ws, n) ==
    IF is_open(h)
    THEN [result |-> Ok, handle |-> h, surfaces |-> ws, created |-> n]
    ELSE CaveGui_open(os, window, h, ws, n)

\* Mutant of show: open's result is dropped, show reports success.
show_swallows_error(os, p, h, ws, n) ==
    IF ~is_open(h)
    THEN [CaveGui_open(os, p, h, ws, n) EXCEPT !.result = Ok]
    ELSE [result |-> Ok, handle |-> h, surfaces |-> ws, created |-> n]

\* show: opens unless already open; `?` passes open's error on.
show(os, p, h, ws, n) ==
    IF ~is_open(h)
    THEN LET r == CaveGui_open(os, p, h, ws, n)
         IN  IF r.result # Ok THEN r ELSE [r EXCEPT !.result = Ok]
    ELSE [result |-> Ok, handle |-> h, surfaces |-> ws, created |-> n]

Record(op, a) ==
    /\ prev' = call
    /\ call' = op
    /\ arg' = a

Apply(r) ==
    /\ c_pc = "idle"
    /\ r.created <= MaxSurfaces
    /\ handle' = r.handle
    /\ surfaces' = r.surfaces
    /\ created' = r.created
    /\ result' = r.result

SetParent(window) ==
    /\ parent' = window
    /\ Apply(set_parent(target_os, window, handle, surfaces, created))
    /\ Record("set_parent", window)
    /\ UNCHANGED <<target_os, c_pc, storeVars, audioVars, voiceVars, mainVars, uiVars>>

Show ==
    /\ Apply(show(target_os, parent, handle, surfaces, created))
    /\ Record("show", "None")
    /\ UNCHANGED <<target_os, parent, c_pc, storeVars, audioVars, voiceVars, mainVars, uiVars>>

\* A direct call of the public CaveGui::open.
Open ==
    /\ Apply(CaveGui_open(target_os, parent, handle, surfaces, created))
    /\ Record("open", "None")
    /\ UNCHANGED <<target_os, parent, c_pc, storeVars, audioVars, voiceVars, mainVars, uiVars>>

CloseWith(op, res) ==
    /\ c_pc = "idle"
    /\ handle' = CaveGui_close(handle, surfaces).handle
    /\ surfaces' = CaveGui_close(handle, surfaces).surfaces
    /\ result' = res
    /\ Record(op, "None")
    /\ UNCHANGED <<target_os, parent, created, c_pc>>
    /\ UNCHANGED <<storeVars, audioVars, voiceVars, mainVars, uiVars>>

\* A direct call of the public CaveGui::close.
Close == CloseWith("close", Unit)

\* PluginGuiImpl::hide
Hide == CloseWith("hide", Ok)

\* PluginGuiImpl::destroy
Destroy == CloseWith("destroy", Unit)

\* What close(), hide() and destroy() return.
CloseResult(op) == IF op = "hide" THEN Ok ELSE Unit

\* The first statement of CaveGui::close, entered through close(), hide() or
\* destroy(): `if let Some(handle) = self.handle.as_mut() { handle.close(); }`
CloseRelease(op) ==
    /\ c_pc = "idle"
    /\ surfaces' = {w \in surfaces : w.id # handle}
    /\ c_pc' = "released"
    /\ result' = "none"
    /\ Record(op, "None")
    /\ UNCHANGED <<target_os, parent, handle, created>>
    /\ UNCHANGED <<storeVars, audioVars, voiceVars, mainVars, uiVars>>

\* The second statement of CaveGui::close, `self.handle = None`, and the
\* return to the caller.
CloseClear ==
    /\ c_pc = "released"
    /\ handle' = NoHandle
    /\ c_pc' = "idle"
    /\ result' = CloseResult(call)
    /\ UNCHANGED <<target_os, parent, surfaces, created, call, arg, prev>>
    /\ UNCHANGED <<storeVars, audioVars, voiceVars, mainVars, uiVars>>

(***************************************************************************)
(* The threads on the parameter store.  The three threads share nothing    *)
(* but the one atomic cell Params.gain, accessed with Relaxed loads and    *)
(* stores: each load and each store is one step, and the order of the      *)
(* steps is the cell's modification order.                                 *)
(***************************************************************************)
\* A store into Params.gain by any thread: `stored` are the values handed to
\* the stores of the step, `given` is the value the writer was given.
Write(newgain, stored, given) ==
    /\ gain' = newgain
    /\ written' = written \cup {stored[k] : k \in DOMAIN stored}
    /\ IF stored = <<>>
       THEN UNCHANGED <<last_arg, got>>
       ELSE last_arg' = <<given>> /\ got' = <<>>

\* One ParamValue event handed to Params::handle_param_value_event.
ParamValue(ev) ==
    Write(handle_param_value_event(gain, ev), param_event_sets(ev), ev.value)

\* 440.0 * 2.0f32.powf((note as f32 - 69.0) / 12.0), for the keys a whole
\* number of octaves from 69, where the power and the product are exact.
midi_to_freq(note) ==
    LET d == note - 69
    IN  IF d >= 0 THEN 440 * 2^(d \div 12) ELSE 440 \div 2^((-d) \div 12)

(***************************************************************************)
(* The voice of CaveAudioProcessor (lib.rs).  The phase is an f32 counted  *)
(* in units of 1 / PhaseOne: 2^-30 is the spacing of the f32 values around *)
(* 440/48000, so every phase step of at least 2^-7 and every phase below   *)
(* 2.0 is a whole number of units, and the f32 sums are computed exactly   *)
(* and then rounded to F32Digits significant digits as the hardware does.  *)
(***************************************************************************)
PhaseOne == 2^30

PhaseHalf == PhaseOne \div 2

\* The quotient q, the remainder r and the number k of doublings such that
\* n * 2^k = q * d + r and q has F32Digits significant binary digits.
RECURSIVE ShiftDiv(_, _, _, _)
ShiftDiv(q, r, d, k) ==
    IF q >= 2^(F32Digits - 1)
    THEN [q |-> q, r |-> r, k |-> k]
    ELSE IF 2 * r >= d
         THEN ShiftDiv(2 * q + 1, 2 * r - d, d, k + 1)
         ELSE ShiftDiv(2 * q, 2 * r, d, k + 1)

\* The f32 quotient n / d of two f32 whole numbers, rounded to nearest, ties
\* to even, in units of 1 / PhaseOne (for quotients of at least 2^-7).
F32Div(n, d) ==
    LET s == ShiftDiv(n \div d, n % d, d, 0)
        m == IF 2 * s.r > d \/ (2 * s.r = d /\ s.q % 2 = 1) THEN s.q + 1 ELSE s.q
    IN  m * 2^(30 - s.k)

\* The f32 sum and difference of two f32 values in units of 1 / PhaseOne.
F32Add(x, y) == F64toF32(x + y)

F32Sub(x, y) == F64toF32(x - y)

\* `let phase_step = self.frequency / self.sample_rate`
phase_step(freq, rate) == F32Div(freq, rate)

\* `*sample = 0.0` of the silent branch.
Silence == [raw |-> 0, gain |-> Zero]

\* Whether the sample raw * gain * 0.1 is 0.0.
IsZero(sample) == sample.raw = 0 \/ sample.gain = Zero

\* Mutant of square: the two halves of the period are exchanged.
square_inverted(ph) == IF ph < PhaseHalf THEN -1 ELSE 1

\* `let raw = if self.phase < 0.5 { 1.0 } else { -1.0 }`
square(ph) == IF ph < PhaseHalf THEN 1 ELSE -1

\* `self.phase += phase_step; if self.phase > 1.0 { self.phase -= 1.0; }`
advance(ph, step) ==
    LET p == F32Add(ph, step)
    IN  IF p > PhaseOne THEN F32Sub(p, PhaseOne) ELSE p

\* Mutant of sample_gain: the shared cell is loaded again for every sample.
sample_gain_reloaded(local, cell) == load(cell)

\* The gain a sample is scaled by: the `gain` local read before the loop.
sample_gain(local, cell) == local

\* Mutant of scaled: the square wave is written at full scale.
scaled_full(raw, g) == [raw |-> raw, gain |-> One]

\* `*sample = raw * gain * 0.1`: the factors raw and gain of the sample.
scaled(raw, g) == [raw |-> raw, gain |-> g]

\* One turn of the sample loop on the voice v = [phase, note_on]: the voice
\* after it and the sample written.
render_sample(v, step, g) ==
    IF v.note_on
    THEN LET p == advance(v.phase, step)
         IN  [phase |-> p, note_on |-> TRUE, sample |-> scaled(square(p), g)]
    ELSE [phase |-> v.phase, note_on |-> FALSE, sample |-> Silence]

\* The sample loop from a given synth_buffer prefix up to n frames.
RECURSIVE render(_, _, _, _, _)
render(v, step, g, samples, n) ==
    IF Len(samples) >= n
    THEN [phase |-> v.phase, samples |-> samples]
    ELSE LET r == render_sample(v, step, g)
         IN  render(r, step, g, Append(samples, r.sample), n)

\* Mutant of note_off: only the key of the sounding note silences the voice.
note_off_same_key(v, key) ==
    IF key # MatchAll /\ midi_to_freq(key[1]) = v.frequency
    THEN [v EXCEPT !.note_on = FALSE]
    ELSE v

\* Mutant of note_off: the note-off is dropped.
note_off_ignored(v, key) == v

\* The NoteOff arm of process: Match::Specific(_) clears note_on.
note_off(v, key) ==
    IF key # MatchAll THEN [v EXCEPT !.note_on = FALSE] ELSE v

\* The NoteOn arm of process: Match::Specific(key) sets frequency and note_on.
note_on_event(v, key) ==
    IF key # MatchAll
    THEN [v EXCEPT !.frequency = midi_to_freq(key[1]), !.note_on = TRUE]
    ELSE v

\* The store and the voice as the audio thread sees them in process().
AudioState ==
    [gain |-> gain, written |-> written, last_arg |-> last_arg, got |-> got,
     frequency |-> frequency, note_on |-> note_on]

\* One turn of the event loop of process on the state st.
process_event(st, ev) ==
    CASE ev.type = "NoteOn" -> note_on_event(st, ev.key)
      [] ev.type = "NoteOff" -> note_off(st, ev.key)
      [] ev.type = "ParamValue" ->
            LET a == param_event_sets(ev)
            IN  IF a = <<>> THEN st
                ELSE [st EXCEPT !.gain = handle_param_value_event(st.gain, ev),
                                !.written = st.written \cup {a[1]},
                                !.last_arg = <<ev.value>>,
                                !.got = <<>>]
      [] OTHER -> st

\* Mutant of drain: the events are taken from the end of the batch.
RECURSIVE drain_backwards(_, _)
drain_backwards(st, evs) ==
    IF evs = <<>> THEN st
    ELSE drain_backwards(process_event(st, evs[Len(evs)]), SubSeq(evs, 1, Len(evs) - 1))

\* The event loop of process: `for event in events.input { ... }`.
RECURSIVE drain(_, _)
drain(st, evs) ==
    IF evs = <<>> THEN st ELSE drain(process_event(st, Head(evs)), Tail(evs))

\* A note event that carries Match::Specific(key).
IsSpecificNote(ev) == ev.type \in {"NoteOn", "NoteOff"} /\ ev.key # MatchAll

\* The kind of the last note event with a specific key among the events evs,
\* and `before` when there is none.
LastNote(before, evs) ==
    LET I == {i \in DOMAIN evs : IsSpecificNote(evs[i])}
    IN  IF I = {} THEN before
        ELSE LET last == CHOOSE i \in I : \A j \in I : j <= i
             IN  IF evs[last].type = "NoteOn" THEN "on" ELSE "off"

\* CaveAudioProcessor::activate with audio_config.sample_rate = rate.
Activate(rate) ==
    /\ a_pc = "inactive"
    /\ a_pc' = "idle"
    /\ phase' = 0
    /\ frequency' = 440
    /\ sample_rate' = rate
    /\ note_on' = FALSE
    /\ last_note' = "none"
    /\ UNCHANGED <<a_gain, frames, buf, out, batch, phase0, blocks,
                   guiVars, storeVars, mainVars, uiVars>>

\* CaveAudioProcessor::process is entered for a block of n frames.
ProcessBegin(n) ==
    /\ a_pc = "idle"
    /\ a_pc' = "events"
    /\ frames' = n
    /\ buf' = <<>>
    /\ batch' = <<>>
    /\ phase0' = phase
    /\ UNCHANGED <<a_gain, note_on, frequency, sample_rate, phase, out, blocks,
                   last_note, guiVars, storeVars, mainVars, uiVars>>

\* process: one turn of the event loop, on the next event of the block.
ProcessEvent(ev) ==
    /\ a_pc = "events"
    /\ LET st == process_event(AudioState, ev)
       IN  /\ gain' = st.gain
           /\ written' = st.written
           /\ last_arg' = st.last_arg
           /\ got' = st.got
           /\ frequency' = st.frequency
           /\ note_on' = st.note_on
    /\ last_note' = LastNote(last_note, <<ev>>)
    /\ UNCHANGED <<got_id, a_pc, a_gain, sample_rate, phase, frames, buf, out,
                   batch, phase0, blocks, guiVars, mainVars, uiVars>>

\* process: `let gain = self.shared.params.gain()` after the event loop.
ProcessReadGain ==
    /\ a_pc = "events"
    /\ a_gain' = {Params_gain(gain)}
    /\ a_pc' = "render"
    /\ UNCHANGED <<note_on, frequency, voiceVars, guiVars, storeVars, mainVars, uiVars>>

\* process: one turn of the sample loop.
ProcessSample ==
    /\ a_pc = "render"
    /\ Len(buf) < frames
    /\ \E local \in a_gain :
          LET r == render_sample([phase |-> phase, note_on |-> note_on],
                                 phase_step(frequency, sample_rate),
                                 sample_gain(local, gain))
          IN  /\ phase' = r.phase
              /\ buf' = Append(buf, r.sample)
    /\ UNCHANGED <<a_pc, a_gain, note_on, frequency, sample_rate, frames, out,
                   batch, phase0, blocks, last_note, guiVars, storeVars, mainVars,
                   uiVars>>

\* process: the buffer is copied to the output channels and process returns.
ProcessReturn ==
    /\ a_pc = "render"
    /\ Len(buf) = frames
    /\ out' = buf
    /\ buf' = <<>>
    /\ a_pc' = "idle"
    /\ a_gain' = {}
    /\ UNCHANGED <<note_on, frequency, sample_rate, phase, frames, batch,
                   phase0, blocks, last_note, guiVars, storeVars, mainVars, uiVars>>

\* CaveAudioProcessor::process as one step of the audio thread, when no other
\* thread runs: the events evs in order, the gain read, the n samples.
Process(evs, n) ==
    /\ a_pc = "idle"
    /\ blocks < MaxBlocks
    /\ LET st == drain(AudioState, evs)
           g == Params_gain(st.gain)
           r == render([phase |-> phase, note_on |-> st.note_on],
                       phase_step(st.frequency, sample_rate),
                       sample_gain(g, st.gain), <<>>, n)
       IN  /\ gain' = st.gain
           /\ written' = st.written
           /\ last_arg' = st.last_arg
           /\ got' = st.got
           /\ frequency' = st.frequency
           /\ note_on' = st.note_on
           /\ phase' = r.phase
           /\ out' = r.samples
    /\ frames' = n
    /\ batch' = evs
    /\ phase0' = phase
    /\ blocks' = blocks + 1
    /\ last_note' = LastNote(last_note, evs)
    /\ UNCHANGED <<got_id, a_pc, a_gain, sample_rate, buf, guiVars, mainVars, uiVars>>

\* PluginAudioProcessorParams::flush is entered.
AudioFlushBegin ==
    /\ a_pc = "idle"
    /\ a_pc' = "flush"
    /\ UNCHANGED <<a_gain, note_on, frequency, voiceVars, guiVars, storeVars, mainVars, uiVars>>

\* PluginAudioProcessorParams::flush: one turn of its loop.
AudioFlushEvent(ev) ==
    /\ a_pc = "flush"
    /\ IF ev.type = "ParamValue" THEN ParamValue(ev) ELSE UNCHANGED <<gain, written, last_arg, got>>
    /\ UNCHANGED <<got_id, a_pc, a_gain, note_on, frequency, voiceVars, guiVars, mainVars, uiVars>>

AudioFlushEnd ==
    /\ a_pc = "flush"
    /\ a_pc' = "idle"
    /\ UNCHANGED <<a_gain, note_on, frequency, voiceVars, guiVars, storeVars, mainVars, uiVars>>

\* PluginMainThreadParams::flush is entered.
MainFlushBegin ==
    /\ m_pc = "idle"
    /\ m_pc' = "flush"
    /\ UNCHANGED <<guiVars, storeVars, audioVars, voiceVars, uiVars>>

\* PluginMainThreadParams::flush: one turn of its loop.
MainFlushEvent(ev) ==
    /\ m_pc = "flush"
    /\ IF ev.type = "ParamValue" THEN ParamValue(ev) ELSE UNCHANGED <<gain, written, last_arg, got>>
    /\ UNCHANGED <<got_id, m_pc, guiVars, audioVars, voiceVars, uiVars>>

MainFlushEnd ==
    /\ m_pc = "flush"
    /\ m_pc' = "idle"
    /\ UNCHANGED <<guiVars, storeVars, audioVars, voiceVars, uiVars>>

\* PluginMainThreadParams::get_value
GetValue(param_id) ==
    /\ m_pc = "idle"
    /\ got_id' = param_id
    /\ got' = <<get_value(gain, param_id)>>
    /\ UNCHANGED <<gain, written, last_arg, guiVars, audioVars, voiceVars, mainVars, uiVars>>

\* CaveGui::slider in the draw callback of the open surface: the load.
SliderLoad ==
    /\ is_open(handle)
    /\ s_pc = "idle"
    /\ s_value' = {load(gain)}
    /\ s_pc' = "loaded"
    /\ UNCHANGED <<guiVars, storeVars, audioVars, voiceVars, mainVars>>

\* slider: the widget reports changed() with the new value, which is stored.
SliderChanged(v) ==
    /\ s_pc = "loaded"
    /\ v \notin s_value
    /\ Write(store(gain, v), <<v>>, v)
    /\ s_pc' = "idle"
    /\ s_value' = {}
    /\ UNCHANGED <<got_id, guiVars, audioVars, voiceVars, mainVars>>

\* slider: the widget reports no change, nothing is stored.
SliderUnchanged ==
    /\ s_pc = "loaded"
    /\ s_pc' = "idle"
    /\ s_value' = {}
    /\ UNCHANGED <<guiVars, storeVars, audioVars, voiceVars, mainVars>>

(***************************************************************************)
(* Initial states and specifications.                                      *)
(***************************************************************************)
\* CaveGui::default in new_main_thread, on either build.
InitGui ==
    /\ target_os \in TargetOs
    /\ parent = NoParent
    /\ handle = NoHandle
    /\ surfaces = {}
    /\ created = 0
    /\ call = "none"
    /\ arg = "None"
    /\ result = "none"
    /\ prev = "none"
    /\ c_pc = "idle"

\* CaveShared::default, and no thread inside a call yet.
InitStore ==
    /\ gain = Params_default
    /\ written = {}
    /\ last_arg = <<>>
    /\ got_id = PARAM_GAIN_ID
    /\ got = <<>>
    /\ a_pc = "inactive"
    /\ a_gain = {}
    /\ note_on = FALSE
    /\ frequency = 0
    /\ m_pc = "idle"
    /\ s_pc = "idle"
    /\ s_value = {}
    /\ sample_rate = 0
    /\ phase = 0
    /\ frames = 0
    /\ buf = <<>>
    /\ out = <<>>
    /\ batch = <<>>
    /\ phase0 = 0
    /\ blocks = 0
    /\ last_note = "none"

Init == InitGui /\ InitStore

NextGui ==
    \/ \E window \in HostHandles(target_os) : SetParent(window)
    \/ Show
    \/ Open
    \/ Close
    \/ Hide
    \/ Destroy

\* The calls on the controller, CaveGui::close statement by statement.
NextClose ==
    \/ \E window \in HostHandles(target_os) : SetParent(window)
    \/ Show
    \/ Open
    \/ \E op \in {"close", "hide", "destroy"} : CloseRelease(op)
    \/ CloseClear

NextAudio ==
    \/ \E rate \in Rates : Activate(rate)
    \/ \E n \in BlockSizes : ProcessBegin(n)
    \/ \E ev \in Events : ProcessEvent(ev)
    \/ ProcessReadGain
    \/ ProcessSample
    \/ ProcessReturn
    \/ \E evs \in Batches, n \in BlockSizes : Process(evs, n)
    \/ AudioFlushBegin
    \/ \E ev \in Events : AudioFlushEvent(ev)
    \/ AudioFlushEnd

NextMain ==
    \/ MainFlushBegin
    \/ \E ev \in Events : MainFlushEvent(ev)
    \/ MainFlushEnd
    \/ \E id \in ParamIds : GetValue(id)

NextUi ==
    \/ SliderLoad
    \/ \E v \in SliderValues : SliderChanged(v)
    \/ SliderUnchanged

\* The audio thread on the parameter store: the voice stays silent.
NextAudioStore ==
    \/ \E rate \in {48000} : Activate(rate)
    \/ \E n \in {1} : ProcessBegin(n)
    \/ \E ev \in ParamEvents \cup OtherEvents : ProcessEvent(ev)
    \/ ProcessReadGain
    \/ ProcessSample
    \/ ProcessReturn
    \/ AudioFlushBegin
    \/ \E ev \in Events : AudioFlushEvent(ev)
    \/ AudioFlushEnd

NextParams == NextAudioStore \/ NextMain \/ NextUi

\* The audio thread rendering short blocks of a note while the slider and
\* the main thread's flush write the gain.
NextRender ==
    \/ \E rate \in {7040} : Activate(rate)
    \/ \E n \in {2} : ProcessBegin(n)
    \/ \E ev \in {[type |-> "NoteOn", key |-> Specific(69)],
                  [type |-> "NoteOff", key |-> Specific(69)]} : ProcessEvent(ev)
    \/ ProcessReadGain
    \/ ProcessSample
    \/ ProcessReturn
    \/ MainFlushBegin
    \/ \E ev \in [type : {"ParamValue"}, id : {PARAM_GAIN_ID}, value : {Zero}] :
          MainFlushEvent(ev)
    \/ MainFlushEnd
    \/ NextUi

\* The audio thread alone, one process() call per step.
NextVoice ==
    \/ \E rate \in Rates : Activate(rate)
    \/ \E evs \in Batches : Process(evs, BlockSizeAt(sample_rate))

Next == NextGui \/ NextClose \/ NextAudio \/ NextMain \/ NextUi

\* The whole plugin.
Spec == Init /\ [][Next]_vars

\* The GUI lifecycle controller under every sequence of calls.
SpecGui == Init /\ [][NextGui]_vars

\* The voice under every sequence of blocks, with no other thread running.
\* No surface is involved: the plugin as constructed, on the Linux build.
InitVoice == InitGui /\ InitStore /\ target_os = "linux"

SpecVoice == InitVoice /\ [][NextVoice]_vars

\* The GUI lifecycle controller with the two statements of close() apart.
SpecClose == Init /\ [][NextClose]_vars

\* The host has handed over a window the build can embed in and the surface
\* is open: the state set_parent leaves from the initial one.
InitOpened ==
    /\ target_os \in TargetOs
    /\ \E window \in HostHandles(target_os) :
         LET r == set_parent(target_os, window, NoHandle, {}, 0)
         IN  /\ r.result = Ok
             /\ window \in {"Xlib", "Win32"}
             /\ parent = window
             /\ handle = r.handle
             /\ surfaces = r.surfaces
             /\ created = r.created
             /\ call = "set_parent"
             /\ arg = window
             /\ result = r.result
             /\ prev = "none"
             /\ c_pc = "idle"

InitParams == InitOpened /\ InitStore

\* The three threads on the parameter store while the surface is open.
SpecParams == InitParams /\ [][NextParams]_vars

\* A block being rendered while the gain is written from the other threads.
SpecRender == InitParams /\ [][NextRender]_vars

(***************************************************************************)
(* Properties of the GUI lifecycle controller, under SpecGui.              *)
(***************************************************************************)
Closers == {"close", "hide", "destroy"}

Openers == {"open", "show", "set_parent"}

\* The surface the controller holds is one the window layer has live.
HoldsLiveSurface(h, ws) == is_open(h) /\ \E w \in ws : w.id = h

\* C1: a call that reaches open() while the controller is Open (a direct
\* open(), show(), set_parent()) keeps the surface handle and creates no
\* second surface.
C1_OpenWhileOpenIsNoOp ==
    [][(call' \in Openers /\ is_open(handle))
         => (handle' = handle /\ surfaces' = surfaces /\ created' = created)]_vars

\* C2: in every reachable state a surface handle is present only if a parent
\* handle is recorded, and after any close, hide or destroy the surface handle
\* is absent.
C2_SurfaceOnlyWithParent ==
    /\ is_open(handle) => parent # NoParent
    /\ call \in Closers => handle = NoHandle

\* C2 witness: set_parent opened a surface under an X11 parent and close
\* followed.
C2_Witness ==
    /\ call = "close"
    /\ prev = "set_parent"
    /\ created = 1
    /\ parent \in X11Kinds
    /\ handle = NoHandle

\* C3: open() (directly or through show()) with no parent recorded, which is
\* the case exactly when set_parent was never called, returns the error "No
\* parent window provided" and leaves parent and surface absent.
C3_OpenWithoutParentFails ==
    [][(call' \in {"open", "show"} /\ parent = NoParent)
         => (/\ result' = ErrNoParent
             /\ parent' = NoParent
             /\ handle' = NoHandle
             /\ surfaces' = surfaces
             /\ created' = created)]_vars

\* C3 witness: a direct open() before any set_parent has returned the error.
C3_Witness ==
    /\ call = "open"
    /\ parent = NoParent
    /\ result = ErrNoParent
    /\ created = 0

\* C4: close(), hide() and destroy() never return an error from any state,
\* leave the surface handle absent and the recorded parent unchanged, a second
\* close in a row and a close with no prior open included.
C4_CloseNeverFails ==
    [][call' \in Closers
         => (/\ result' \notin Errors
             /\ handle' = NoHandle
             /\ parent' = parent
             /\ \A w \in surfaces' : w.id # handle)]_vars

\* C4 witness: close was called twice in a row with nothing ever opened.
C4_Witness ==
    /\ call = "close"
    /\ prev = "close"
    /\ created = 0
    /\ handle = NoHandle

\* C5: set_parent(h) always records h; while Open it does nothing else and
\* returns Ok; otherwise its result and effect are those of open() on the
\* recorded h, so a successful set_parent leaves the controller Open.
C5_SetParentRecordsThenOpens ==
    [][call' = "set_parent"
         => (/\ parent' = arg'
             /\ IF is_open(handle)
                THEN /\ result' = Ok
                     /\ handle' = handle
                     /\ surfaces' = surfaces
                     /\ created' = created
                ELSE [result |-> result', handle |-> handle',
                      surfaces |-> surfaces', created |-> created']
                       = CaveGui_open(target_os, arg', handle, surfaces, created)
             /\ result' = Ok => HoldsLiveSurface(handle', surfaces'))]_vars

\* C5 witness: set_parent was handed a Wayland handle while Open and returned
\* Ok with the one surface kept.
C5_Witness ==
    /\ call = "set_parent"
    /\ arg = "Wayland"
    /\ parent = "Wayland"
    /\ result = Ok
    /\ created = 1
    /\ handle = 1

\* C6: show() has open()'s result and effect when the controller is not Open
\* (the error with no parent recorded included) and is a no-op returning Ok
\* when it is Open.
C6_ShowIsOpenUnlessOpen ==
    [][call' = "show"
         => (/\ parent' = parent
             /\ IF is_open(handle)
                THEN /\ result' = Ok
                     /\ handle' = handle
                     /\ surfaces' = surfaces
                     /\ created' = created
                ELSE [result |-> result', handle |-> handle',
                      surfaces |-> surfaces', created |-> created']
                       = CaveGui_open(target_os, parent, handle, surfaces, created))]_vars

\* C6 witness: show() before any set_parent returned open()'s error.
C6_Witness ==
    /\ call = "show"
    /\ result = ErrNoParent
    /\ handle = NoHandle

\* A parent handle of a kind that cannot host an embedded surface: Wayland,
\* or any kind but X11 on Linux.
Unembeddable(os, p) ==
    /\ p # NoParent
    /\ p = "Wayland" \/ (os = "linux" /\ p \notin X11Kinds)

Readable == written \cup {Params_default}

\* x is an f32: it has at most F32Digits significant binary digits.
RepresentableF32(x) == Abs(x) % F32Ulp(Abs(x), 1) = 0

\* C8: under every interleaving of the audio thread, the main thread's flush
\* and get_value and the slider, every value read from the gain (the block's
\* gain, the slider's loaded value, get_value's result) is the initial value
\* or a value handed to an earlier write.
C8_ReadsAreWrittenValues ==
    /\ a_gain \subseteq Readable
    /\ s_value \subseteq Readable
    /\ (got # <<>> /\ got[1] # <<>>) => got[1][1] \in Readable

\* C8 witness: the three threads are inside process(), flush() and slider()
\* at once, at least two different values have been written, and the audio
\* thread and the slider hold different values read from the gain.
C8_Witness ==
    /\ a_pc = "render"
    /\ m_pc = "flush"
    /\ s_pc = "loaded"
    /\ Cardinality(written) >= 2
    /\ a_gain # s_value
    /\ a_gain \subseteq written

\* A get_value(PARAM_GAIN_ID) has returned since the most recent write, which
\* was handed the value last_arg[1].
GetFollowsSet == got # <<>> /\ got_id = PARAM_GAIN_ID /\ last_arg # <<>>

\* C9 as stated: a set of v followed by a get of the gain with no write in
\* between returns v unchanged, inside and outside the declared range.
C9_GetReturnsSetValue ==
    GetFollowsSet => got[1] = last_arg

\* C9 amended: a set of v followed by a get of the gain with no write in
\* between returns the f32 nearest to v (within half a unit in the last place
\* of v), which is v itself whenever v is an f32, inside and outside the
\* declared range: the value is rounded, never clamped.
C9_GetReturnsSetValueAsF32 ==
    GetFollowsSet
      => /\ got[1] # <<>>
         /\ RepresentableF32(got[1][1])
         /\ 2 * Abs(got[1][1] - last_arg[1]) <= F32Ulp(Abs(last_arg[1]), 1)
         /\ RepresentableF32(last_arg[1]) => got[1] = last_arg

\* C9 witness: the gain was set to 2.0, outside the declared range, and the
\* following get returned 2.0.
C9_Witness ==
    /\ GetFollowsSet
    /\ last_arg = <<2 * One>>
    /\ got = <<last_arg>>
    /\ last_arg[1] > get_info(0)[1].max_value

\* C10: before any write, the value of the gain is the default value its
\* descriptor declares.
C10_InitialGainIsDescriptorDefault ==
    written = {}
      => get_value(gain, PARAM_GAIN_ID) = <<get_info(0)[1].default_value>>

\* A step in which some thread handles the parameter-change event ev.
HandlesParamEvent(ev) ==
    ProcessEvent(ev) \/ AudioFlushEvent(ev) \/ MainFlushEvent(ev)

\* C11: a parameter-change event with an id other than PARAM_GAIN_ID, handled
\* in process() or in either flush(), changes neither the gain nor the record
\* of its writes, and a get_value with such an id leaves the gain alone and
\* reports no value (None), not an error and not the gain.
C11_UnknownIdIsNoOp ==
    [][/\ \A ev \in ParamEvents :
             (ev.id # PARAM_GAIN_ID /\ HandlesParamEvent(ev))
               => UNCHANGED <<gain, written, last_arg, got>>
       /\ \A id \in ParamIds :
             (id # PARAM_GAIN_ID /\ GetValue(id))
               => gain' = gain /\ got' = << <<>> >>]_vars

\* C11 witness: the gain has been written by an event, and the get_value that
\* followed, for an id other than PARAM_GAIN_ID, reported no value.
C11_Witness ==
    /\ got_id # PARAM_GAIN_ID
    /\ got = << <<>> >>
    /\ last_arg # <<>>
    /\ gain # Params_default

(***************************************************************************)
(* Properties of the voice, under SpecVoice.                               *)
(***************************************************************************)
\* A process() call has returned and none is running.
BlockDone == a_pc = "idle" /\ blocks > 0

NoteOn(key) == [type |-> "NoteOn", key |-> Specific(key)]

NoteOff(key) == [type |-> "NoteOff", key |-> Specific(key)]

SetGain(v) == [type |-> "ParamValue", id |-> PARAM_GAIN_ID, value |-> v]

\* Every sample of the last block is 0.0.
SilentBlock == \A n \in DOMAIN out : IsZero(out[n])

\* Every sample of the last block is one of the two levels of the square wave.
SoundingBlock == \A n \in DOMAIN out : out[n].raw \in {1, -1}

\* C12: at the end of every processing block, whatever the sample rate, the
\* frequency set by note-on events and the block length, the phase is at
\* least 0.0 and below 1.0.
C12_PhaseBelowOne ==
    BlockDone => (0 <= phase /\ phase < PhaseOne)

\* C13: when the last note event with a specific key handled so far is a
\* note-off (so a note-off has been handled and no note-on since), every
\* sample of the block in which it was handled and of every later block is
\* 0.0.
C13_SilentAfterNoteOff ==
    (BlockDone /\ last_note = "off") => SilentBlock

\* C13 witness: a block with no events has been rendered silent after an
\* earlier block that handled a note-on for key 81 and then a note-off.
C13_Witness ==
    /\ BlockDone
    /\ last_note = "off"
    /\ frequency = midi_to_freq(81)
    /\ blocks > 1
    /\ batch = <<>>
    /\ out # <<>>
    /\ SilentBlock

\* The events of the last block set the gain to 0.0 and no later event of the
\* block writes it.
GainZeroedInBlock ==
    \E i \in DOMAIN batch :
        /\ batch[i] = SetGain(Zero)
        /\ \A j \in DOMAIN batch : j > i => batch[j].type # "ParamValue"

\* C14: when a parameter-change event of a block sets the gain to 0.0 and
\* nothing writes the gain afterwards, every sample of that block is zero,
\* also when the voice is sounding.
C14_ZeroGainSilences ==
    (BlockDone /\ GainZeroedInBlock) => SilentBlock

\* C14 witness: the voice is sounding (every sample has a square-wave level
\* of +1 or -1) in a block whose events set the gain to 0.0.
C14_Witness ==
    /\ BlockDone
    /\ GainZeroedInBlock
    /\ note_on
    /\ out # <<>>
    /\ SoundingBlock
    /\ SilentBlock

\* The last block is the 64-sample block of the claim: the rate is 48000 Hz,
\* the phase was 0.0 when it started, as activate leaves it, and its events
\* hold a note-on for key 69, the note that sounds.
FirstA4Block ==
    /\ BlockDone
    /\ sample_rate = 48000
    /\ phase0 = 0
    /\ Len(out) = 64
    /\ \E i \in DOMAIN batch : batch[i] = NoteOn(69)
    /\ note_on
    /\ frequency = 440

\* C15: after activation at 48000 Hz, a note-on for key 69 in a 64-sample
\* block gives samples that are each +gain*0.1 or -gain*0.1, gain being the
\* gain of the block; sample n is positive exactly when the exact phase
\* n*440/48000 (mod 1) is below 0.5, so the block starts with a run of 54
\* positive samples followed by negative ones.
C15_SquareWaveAt440 ==
    FirstA4Block
      => /\ \A n \in 1..64 :
               /\ out[n].gain = gain
               /\ out[n].raw = IF (n * 440) % 48000 < 24000 THEN 1 ELSE -1
         /\ \A n \in 1..54 : out[n].raw = 1
         /\ \A n \in 55..64 : out[n].raw = -1

\* C15 witness: such a block has been rendered with a gain that is not 0.0.
C15_Witness ==
    /\ FirstA4Block
    /\ gain # Zero
    /\ batch = <<NoteOn(69)>>

\* The last note event with a specific key among the events of the last block.
SpecificNotes == {i \in DOMAIN batch : IsSpecificNote(batch[i])}

LastSpecificNote == batch[CHOOSE i \in SpecificNotes : \A j \in SpecificNotes : j <= i]

\* C16: the events of a block are all applied, in delivery order, before any
\* sample: when the last note event of the block is a note-off the whole
\* block is silent, when it is a note-on the whole block sounds, at the
\* frequency of that note-on.
C16_LastNoteEventRules ==
    (BlockDone /\ SpecificNotes # {})
      => IF LastSpecificNote.type = "NoteOff"
         THEN ~note_on /\ \A n \in DOMAIN out : out[n] = Silence
         ELSE /\ note_on
              /\ frequency = midi_to_freq(LastSpecificNote.key[1])
              /\ SoundingBlock

\* C16 witness: a block whose events are a note-off followed by a note-on
\* for key 81 has been rendered sounding at 880 Hz.
C16_Witness ==
    /\ BlockDone
    /\ batch = <<NoteOff(69), NoteOn(81)>>
    /\ note_on
    /\ frequency = 880
    /\ out # <<>>
    /\ SoundingBlock

\* C18: in a block with a single event, a note-off with a specific key leaves
\* the voice silent and the frequency as it was, whatever the key of the
\* sounding note; a note-on or note-off for every key (Match::All) changes
\* neither note_on nor the frequency.
C18_NoteOffAnyKeySilences ==
    [][(blocks' = blocks + 1 /\ Len(batch') = 1)
         => LET ev == batch'[1]
            IN  /\ (ev.type = "NoteOff" /\ ev.key # MatchAll)
                     => (~note_on' /\ frequency' = frequency)
                /\ (ev.type \in {"NoteOn", "NoteOff"} /\ ev.key = MatchAll)
                     => (note_on' = note_on /\ frequency' = frequency)]_vars

\* C18 witness: the voice had sounded key 81 (880 Hz) up to this block, whose
\* only event is a note-off for key 69, and the block is silent at 880 Hz.
C18_Witness ==
    /\ BlockDone
    /\ batch = <<NoteOff(69)>>
    /\ phase0 > 0
    /\ frequency = midi_to_freq(81)
    /\ ~note_on
    /\ out # <<>>
    /\ SilentBlock

(***************************************************************************)
(* Properties of a block rendered while the gain is written, under         *)
(* SpecRender.                                                             *)
(***************************************************************************)
\* C17: the gain local of process() is loaded from the cell in the one step
\* that follows the event loop and is not touched while the block is
\* rendered, and every non-zero sample of the returned block is scaled by
\* that value, whatever the slider and the main thread's flush store in the
\* cell in the meantime.
C17_OneGainPerBlock ==
    [][/\ (a_pc = "events" /\ a_pc' = "render") => a_gain' = {gain}
       /\ (a_pc = "render" /\ a_pc' = "render") => a_gain' = a_gain
       /\ (a_pc = "render" /\ a_pc' = "idle")
            => \A n \in DOMAIN out' : out'[n].raw # 0 => out'[n].gain \in a_gain]_vars

\* C17 witness: the block is half rendered, its first sample sounds with the
\* gain read for the block, and the cell holds another value by now.
C17_Witness ==
    /\ a_pc = "render"
    /\ Len(buf) = 1
    /\ Len(buf) < frames
    /\ buf[1].raw # 0
    /\ buf[1].gain # gain
    /\ buf[1].gain \in a_gain

(***************************************************************************)
(* Properties of the order of release and clearing (SpecClose) and of the  *)
(* recorded parent (SpecGui).                                              *)
(***************************************************************************)
\* C19: during close, hide and destroy there is no state in which the
\* surface has been released while the controller still holds its handle and
\* is_open() is true: the handle is cleared no later than the release.
C19_HandleClearedBeforeRelease ==
    (call \in Closers /\ is_open(handle)) => HoldsLiveSurface(handle, surfaces)

\* The surface the controller holds was created under another parent than the
\* one recorded.
ParentMismatch(h, ws, p) ==
    is_open(h) /\ \E w \in ws : w.id = h /\ w.parent # p

\* C20 as stated: whenever the controller is Open, the recorded parent is the
\* parent the live surface was created under.
C20_RecordedParentIsSurfaceParent ==
    ~ParentMismatch(handle, surfaces, parent)

\* C20 amended: a surface is always created under the parent recorded at that
\* moment, and the recorded parent differs from the parent of the surface
\* held only from a set_parent call made while Open with another handle,
\* for as long as that surface stays open.
C20_MismatchOnlyBySetParentWhileOpen ==
    [][ParentMismatch(handle', surfaces', parent')
         => /\ is_open(handle)
            /\ handle' = handle
            /\ \/ ParentMismatch(handle, surfaces, parent)
               \/ (call' = "set_parent" /\ parent' # parent)]_vars

\* C20 witness: show() has opened a surface under the recorded parent, and a
\* set_parent made while Open has then recorded another handle, the surface
\* staying under the first one.
C20_Witness ==
    /\ prev = "show"
    /\ call = "set_parent"
    /\ result = Ok
    /\ ParentMismatch(handle, surfaces, parent)
    /\ HoldsLiveSurface(handle, surfaces)
====
